---- MODULE Spec2Model ----
(***************************************************************************)
(* A model of sympy/series/limits.py: the entry function limit(), the      *)
(* Limit node constructor Limit.__new__, the evaluator Limit.doit with its *)
(* nested remove_abs, and the term-wise heuristics().                      *)
(*                                                                         *)
(* The evaluation is a single-threaded mutual recursion.  It is modelled   *)
(* as a machine with an explicit call stack: one frame per active call of  *)
(* Limit.doit ("doit"), heuristics ("heur") or remove_abs ("rabs"), one    *)
(* action per stretch of code between two recursive calls.  The symbolic   *)
(* algebra, the series machinery and gruntz() are collaborators whose code *)
(* is not part of limits.py: each call of one of them is a choice among    *)
(* the outcomes the calling code distinguishes.                            *)
(*                                                                         *)
(* Expressions and values are tuples <<tag, arg, ...>>; an atom is a       *)
(* 1-tuple.  <<"V">> is the variable of the limit being taken, <<"k">> a   *)
(* symbol free of it.                                                      *)
(***************************************************************************)
EXTENDS Integers, Sequences, FiniteSets, TLC

VARIABLES
    req,     \* the arguments of the outermost call: e, z, z0, dir, deep
    ph,      \* "call": not yet entered, "run": evaluating, "done": finished
    stack,   \* the call stack, innermost frame last
    ncalls,  \* the calls made so far by the evaluation
    ret      \* the value or exception travelling from a finished call to its caller

vars == <<req, ph, stack, ncalls, ret>>

\* The deepest call stack explored.
MaxDepth == 4

\* The most calls (of limit, heuristics and remove_abs) one evaluation makes.
MaxCalls == 4

\* The exponents leadterm() is taken to report lie in -MaxEx .. MaxEx.
MaxEx == 2

(***************************************************************************)
(* The special values (S.Zero, S.One, S.Infinity, ...), AccumBounds, and   *)
(* the markers for an unset local and for heuristics' None.                *)
(***************************************************************************)
Zero == <<"0">>
One == <<"1">>
NegativeOne == <<"-1">>
Infinity == <<"oo">>
NegativeInfinity == <<"-oo">>
ComplexInfinity == <<"zoo">>
NaN == <<"nan">>
AccumBounds == <<"AccumBounds">>
\* a finite symbolic value whose sign and reality are unknown
SymC == <<"c">>
None == <<"None">>
Unset == <<"unset">>

V == <<"V">>
K == <<"k">>

NotImplementedError == <<"NotImplementedError">>
ValueError == <<"ValueError">>
TypeError == <<"TypeError">>
PoleError == <<"PoleError">>
\* the ValueError of doit: "The limit does not exist since left hand limit = l
\* and right hand limit = r"
NonExistence(l, r) == <<"ValueError", "limit does not exist", l, r>>

Tag(x) == x[1]
Args(x) == SubSeq(x, 2, Len(x))
IsLimit(x) == Tag(x) = "Limit"

\* e.has(z): the variable occurs in e
RECURSIVE Has(_)
Has(x) ==
    IF x = V THEN TRUE
    ELSE IF IsLimit(x) THEN FALSE
    ELSE \E i \in 2..Len(x) : Has(x[i])

\* an Abs occurs in e
RECURSIVE HasAbs(_)
HasAbs(x) ==
    IF Tag(x) = "Abs" THEN TRUE
    ELSE IF IsLimit(x) THEN FALSE
    ELSE \E i \in 2..Len(x) : HasAbs(x[i])

\* e.has(S.Infinity, S.NegativeInfinity, S.ComplexInfinity, S.NaN)
RECURSIVE HasMarker(_)
HasMarker(x) ==
    IF x \in {Infinity, NegativeInfinity, ComplexInfinity, NaN} THEN TRUE
    ELSE IF IsLimit(x) THEN FALSE
    ELSE \E i \in 2..Len(x) : HasMarker(x[i])

\* an unevaluated Limit node occurs in the value x
RECURSIVE ContainsLimit(_)
ContainsLimit(x) ==
    IF IsLimit(x) THEN TRUE
    ELSE \E i \in 2..Len(x) : ContainsLimit(x[i])

\* abs(z0) is S.Infinity, for the points doit lets through
IsInfinitePoint(z0) == z0 \in {Infinity, NegativeInfinity}

\* z0.is_extended_positive
IsExtendedPositive(z0) == z0 \in {One, Infinity}

(***************************************************************************)
(* Limit.__new__                                                           *)
(***************************************************************************)
\* a direction the caller may pass: the three legal strings, another string,
\* and an object that is neither a str nor a Symbol
Directions == {"+", "-", "+-"}
SuppliedDirections == Directions \cup {"bogus", "#object"}

NewDir_ignoresInfinity(z0, dir) == dir

\* lines 150-153: the direction is determined by an infinite point
NewDir(z0, dir) ==
    IF z0 = Infinity THEN "-"
    ELSE IF z0 = NegativeInfinity THEN "+"
    ELSE dir

DirError_acceptsAll(dir) == Unset

\* lines 155-162: Unset when the direction is accepted, else the exception
DirError(dir) ==
    IF dir = "#object" THEN TypeError
    ELSE IF dir \notin {"+", "-", "+-"} THEN ValueError
    ELSE Unset

\* the node: obj._args = (e, z, z0, dir); id tells two nodes with equal
\* arguments apart (object identity)
Node(id, e, z, z0, dir) == <<"Limit", id, e, z, z0, dir>>

DoitFrame(id, site, e, z, z0, dirArg, deep) ==
    [fn |-> "doit", pc |-> "start", id |-> id, site |-> site,
     e0 |-> e, e |-> e, z |-> z, z0 |-> z0, dirArg |-> dirArg,
     dir |-> NewDir(z0, dirArg), deep |-> deep,
     ex_lim |-> Unset, base_lim |-> Unset, res |-> Unset,
     r |-> Unset, l |-> Unset,
     coeff |-> Unset, ex |-> 0, ltfail |-> FALSE]

Self(f) == Node(f.id, f.e0, f.z, f.z0, f.dir)

(***************************************************************************)
(* The stack machine                                                       *)
(***************************************************************************)
NoFrame == [fn |-> "none"]
NoRet == [kind |-> "none", v |-> Unset, src |-> "", fr |-> NoFrame]

top == stack[Len(stack)]
Running == ph = "run" /\ stack # <<>>
At(fn, pc) == Running /\ ret.kind = "none" /\ top.fn = fn /\ top.pc = pc
Back(fn, pc) == Running /\ ret.kind # "none" /\ top.fn = fn /\ top.pc = pc

Below == SubSeq(stack, 1, Len(stack) - 1)

\* the top frame goes on as f
Goto(f) ==
    /\ stack' = Below \o <<f>>
    /\ ret' = NoRet
    /\ UNCHANGED <<req, ph, ncalls>>

\* the top frame, left as f, hands v back to its caller
Finish(kind, v, src, f) ==
    /\ stack' = Below
    /\ ret' = [kind |-> kind, v |-> v, src |-> src, fr |-> f]
    /\ ph' = IF Len(stack) = 1 THEN "done" ELSE "run"
    /\ UNCHANGED <<req, ncalls>>

Return(v, src, f) == Finish("val", v, src, f)
Raise(x, src, f) == Finish("exc", x, src, f)

\* the top frame, left as f, calls g
Call(f, g) ==
    /\ Len(stack) < MaxDepth
    /\ ncalls < MaxCalls
    /\ stack' = Below \o <<f, g>>
    /\ ncalls' = ncalls + 1
    /\ ret' = NoRet
    /\ UNCHANGED <<req, ph>>

\* limit(e, z, z0, dir) called by the top frame, left as f, at call site
\* `site`: line 65, Limit(e, z, z0, dir).doit(deep=False)
CallLimit(f, site, e, z, z0, dir) ==
    IF DirError(NewDir(z0, dir)) # Unset
    THEN Raise(DirError(NewDir(z0, dir)), "new", f)
    ELSE Call(f, DoitFrame(Len(stack) + 1, site, e, z, z0, dir, FALSE))

(***************************************************************************)
(* The collaborators of doit.  Each set holds the outcomes the calling     *)
(* code tells apart.                                                       *)
(***************************************************************************)
\* line 201, e.doit(**hints): an atom is its own doit(); anything else stays
\* as it is, or evaluates to the variable itself, or to something free of it.
\* z and z0 are atoms here.
DoitOf(e) == IF Len(e) = 1 THEN {e} ELSE {e, V, K}

\* line 242, newe.leadterm(z, cdir): the coefficients and the exponents
LeadCoeffs == {One, NegativeOne, SymC}
LeadExps == (0 - MaxEx)..MaxEx

\* sign(coeff)
Sign(coeff) ==
    IF coeff = One THEN One
    ELSE IF coeff = NegativeOne THEN NegativeOne
    ELSE <<"sign", coeff>>

\* S.Infinity*sign(coeff), S.NegativeInfinity*sign(coeff)
InfTimes(inf, s) ==
    IF s = One THEN inf
    ELSE IF s = NegativeOne
         THEN (IF inf = Infinity THEN NegativeInfinity ELSE Infinity)
    ELSE <<"Mul", inf, s>>

MeroResult_ignoresParity(coeff, ex, dir) ==
    IF ex > 0 THEN Zero
    ELSE IF ex = 0 THEN coeff
    ELSE IF dir = "+" THEN InfTimes(Infinity, Sign(coeff))
    ELSE IF dir = "-" THEN InfTimes(NegativeInfinity, Sign(coeff))
    ELSE ComplexInfinity

\* lines 246-255: the decision table of the meromorphic path
MeroResult(coeff, ex, dir) ==
    IF ex > 0 THEN Zero
    ELSE IF ex = 0 THEN coeff
    ELSE IF dir = "+" \/ ex % 2 = 0 THEN InfTimes(Infinity, Sign(coeff))
    ELSE IF dir = "-" THEN InfTimes(NegativeInfinity, Sign(coeff))
    ELSE ComplexInfinity

\* line 262, e.rewrite(factorial, gamma): factorial(n) becomes gamma(n + 1)
RECURSIVE RewriteFactorial(_)
RewriteFactorial(x) ==
    IF Tag(x) = "factorial" THEN <<"gamma", <<"Add", RewriteFactorial(x[2]), One>>>>
    ELSE IF Len(x) = 2 THEN <<x[1], RewriteFactorial(x[2])>>
    ELSE IF Len(x) = 3 THEN <<x[1], RewriteFactorial(x[2]), RewriteFactorial(x[3])>>
    ELSE x

\* line 265, factor_terms(e): e as it is, or with a constant pulled out
FactorTerms(e) == {e, <<"Mul", K, <<"Other", V>>>>}

\* line 272, inve.as_leading_term(u).gammasimp(): an expression in u
LeadingTerms == {K, <<"Pow", V, NegativeOne>>, <<"Other", V>>}

\* exp(res)
Exp(v) ==
    IF v = Zero THEN One
    ELSE IF v = Infinity THEN Infinity
    ELSE IF v = NegativeInfinity THEN Zero
    ELSE IF v \in {NaN, ComplexInfinity} THEN NaN
    ELSE <<"exp", v>>

\* line 316, base_lim**ex_lim as Pow evaluates it; what it leaves alone is a Pow
PowValue(b, x) ==
    IF b = NaN \/ x = NaN THEN NaN
    ELSE IF x = Zero THEN One
    ELSE IF x = One THEN b
    ELSE IF b = One THEN (IF x \in {Infinity, NegativeInfinity} THEN NaN ELSE One)
    ELSE IF b = Zero /\ x \in {NegativeOne, NegativeInfinity} THEN ComplexInfinity
    ELSE IF b = Zero /\ x = Infinity THEN Zero
    ELSE IF b = NegativeOne /\ x = NegativeOne THEN NegativeOne
    ELSE IF b \in {Infinity, NegativeInfinity} /\ x \in {NegativeOne, NegativeInfinity} THEN Zero
    ELSE IF b = Infinity /\ x = Infinity THEN Infinity
    ELSE <<"Pow", b, x>>

\* ex_lim.is_real
IsReal(v) == v \in {Zero, One, NegativeOne}

\* the values gruntz() is taken to return, and the exceptions doit catches
GruntzValues == {Zero, One, NaN, AccumBounds}
GruntzErrors == {PoleError, ValueError}

\* line 290, f1 = e1*log(b1)
PowLogExpr(b1, e1) == <<"Mul", e1, <<"log", b1>>>>

PowOneInfExpr_usesLog(b1, e1) == <<"Mul", e1, <<"log", b1>>>>

\* line 300, e1*(b1 - 1)
PowOneInfExpr(b1, e1) == <<"Mul", e1, <<"Add", b1, NegativeOne>>>>

(***************************************************************************)
(* The outermost call                                                      *)
(***************************************************************************)
\* the expressions the outermost call is made with
InitExprs ==
    {V, K,
     <<"Abs", V>>, <<"Mul", <<"Abs", V>>, K>>,
     <<"Mul", <<"Fn", V>>, V>>, <<"Add", <<"Fn", V>>, K>>,
     <<"Pow", V, Infinity>>,
     <<"factorial", V>>, <<"Order", V>>, <<"Other", V>>}

\* the points
Points == {Zero, One, Infinity, NegativeInfinity, ComplexInfinity}

\* the calls of limit(e, z, z0, dir)
LimitRequests ==
    [e : InitExprs, z0 : Points, dir : SuppliedDirections, deep : {FALSE}]

\* the calls of limit() with a power whose exponent has a limit of its own to
\* be found: the base tends to 0, to 1 and to -oo
PowRequests ==
    [e : {<<"Pow", V, <<"Other", V>>>>}, z0 : {Zero, One, NegativeInfinity},
     dir : {"+", "-"}, deep : {FALSE}]

\* the calls of Limit(e, z, z0, dir).doit() with the default hints (deep=True)
DeepRequests ==
    [e : InitExprs, z0 : {Zero, ComplexInfinity}, dir : {"+"}, deep : {TRUE}]

Init ==
    /\ req \in LimitRequests \cup PowRequests \cup DeepRequests
    /\ ph = "call"
    /\ stack = <<>>
    /\ ncalls = 0
    /\ ret = NoRet

\* lines 14-65 and 145-166.  limit(e, z, z0, dir) is Limit(e, z, z0,
\* dir).doit(deep=False); with req.deep the caller builds the node and calls
\* its doit() with the default hints.
Enter ==
    /\ ph = "call"
    /\ LET dir == NewDir(req.z0, req.dir)
       IN  IF DirError(dir) # Unset
           THEN /\ ret' = [kind |-> "exc", v |-> DirError(dir), src |-> "new",
                           fr |-> NoFrame]
                /\ ph' = "done"
                /\ stack' = <<>>
           ELSE /\ stack' = <<DoitFrame(1, "top", req.e, "z", req.z0, req.dir, req.deep)>>
                /\ ph' = "run"
                /\ ret' = NoRet
    /\ UNCHANGED <<req, ncalls>>

(***************************************************************************)
(* Limit.doit                                                              *)
(***************************************************************************)
StartOutcome_trivialFirst(e, z0) ==
    IF e = V THEN <<"return", z0>>
    ELSE IF ~Has(e) THEN <<"return", e>>
    ELSE IF z0 = ComplexInfinity THEN <<"raise", NotImplementedError>>
    ELSE <<"go", e>>

StartOutcome_noHasCheck(e, z0) ==
    IF z0 = ComplexInfinity THEN <<"raise", NotImplementedError>>
    ELSE IF e = V THEN <<"return", z0>>
    ELSE <<"go", e>>

\* lines 196-209: the refusal of complex infinity, then the trivial limits
StartOutcome(e, z0) ==
    IF z0 = ComplexInfinity THEN <<"raise", NotImplementedError>>
    ELSE IF e = V THEN <<"return", z0>>
    ELSE IF ~Has(e) THEN <<"return", e>>
    ELSE <<"go", e>>

RabsFrame(expr, f) ==
    [fn |-> "rabs", pc |-> "args", expr |-> expr, newargs |-> <<>>,
     z |-> f.z, z0 |-> f.z0, dir |-> f.dir]

\* lines 194-234, up to the call of remove_abs(e).  remove_abs returns an
\* expression without Abs as it is, after a traversal that calls nothing.
DoitStart ==
    /\ At("doit", "start")
    /\ \E e \in (IF top.deep /\ top.z0 # ComplexInfinity THEN DoitOf(top.e) ELSE {top.e}) :
         LET o == StartOutcome(e, top.z0)
             f == [top EXCEPT !.e = e]
         IN  IF o[1] = "raise" THEN Raise(o[2], "complex_infinity", top)
             ELSE IF o[1] = "return" THEN Return(o[2], "trivial", f)
             ELSE IF HasAbs(e)
                  THEN Call([f EXCEPT !.pc = "abs", !.deep = FALSE], RabsFrame(e, f))
             ELSE Goto([f EXCEPT !.pc = "mero", !.deep = FALSE])

\* line 234: e = remove_abs(e)
DoitAbsRet ==
    /\ Back("doit", "abs") /\ ret.kind = "val"
    /\ Goto([top EXCEPT !.e = ret.v, !.pc = "mero"])

\* lines 273 and 291: the caller has found this very expression meromorphic
\* at this point before it called limit() on it
KnownMeromorphic(f) == f.site \in {"prod", "pow_f1"} /\ f.e = f.e0

\* lines 236-255: the meromorphic path
DoitMero ==
    /\ At("doit", "mero")
    /\ \/ \* e.is_meromorphic(z, z0) is not true
          /\ ~KnownMeromorphic(top)
          /\ Goto([top EXCEPT !.pc = "rewrite"])
       \/ \* leadterm raises ValueError or NotImplementedError
          Goto([top EXCEPT !.pc = "rewrite", !.ltfail = TRUE])
       \/ \E coeff \in LeadCoeffs, ex \in LeadExps :
            Return(MeroResult(coeff, ex, top.dir), "mero",
                   [top EXCEPT !.coeff = coeff, !.ex = ex])

\* lines 261-280: the factorial rewrite, then the product at infinity
DoitProduct ==
    /\ At("doit", "rewrite")
    /\ LET e1 == IF IsExtendedPositive(top.z0) THEN RewriteFactorial(top.e) ELSE top.e
       IN  IF Tag(e1) = "Mul" /\ IsInfinitePoint(top.z0)
           THEN \E e2 \in FactorTerms(e1) :
                  \/ \* as_leading_term, gammasimp or is_meromorphic raises, or
                     \* f is not meromorphic at 0
                     Goto([top EXCEPT !.e = e2, !.pc = "order"])
                  \/ \E f \in LeadingTerms :
                       CallLimit([top EXCEPT !.e = e2, !.pc = "prod"],
                                 "prod", f, "u", Zero, "+")
           ELSE Goto([top EXCEPT !.e = e1, !.pc = "order"])

\* lines 275-278
DoitProductRet ==
    /\ Back("doit", "prod") /\ ret.kind = "val"
    /\ IF IsLimit(ret.v) THEN Return(Self(top), "prod", top)
       ELSE Return(ret.v, "prod", top)

\* lines 282-283: limit(e.expr, z, z0) is called without dir
DoitOrder ==
    /\ At("doit", "order")
    /\ IF Tag(top.e) = "Order"
       THEN CallLimit([top EXCEPT !.pc = "order_wait"], "order", top.e[2], top.z, top.z0, "+")
       ELSE Goto([top EXCEPT !.pc = "pow"])

DoitOrderRet ==
    /\ Back("doit", "order_wait") /\ ret.kind = "val"
    /\ Return(<<"Order", ret.v>>, "order", top)

\* lines 285-296: a power; every limit() here is called without dir
DoitPow ==
    /\ At("doit", "pow")
    /\ IF Tag(top.e) # "Pow" THEN Goto([top EXCEPT !.pc = "gruntz"])
       ELSE IF HasMarker(top.e) THEN Return(Self(top), "pow_marker", top)
       ELSE \/ \* f1.is_meromorphic(z, z0)
               CallLimit([top EXCEPT !.pc = "pow_f1"], "pow_f1",
                         PowLogExpr(top.e[2], top.e[3]), top.z, top.z0, "+")
            \/ CallLimit([top EXCEPT !.pc = "pow_ex"], "pow_ex",
                         top.e[3], top.z, top.z0, "+")

\* line 293
DoitPowF1Ret ==
    /\ Back("doit", "pow_f1") /\ ret.kind = "val"
    /\ Return(Exp(ret.v), "pow_f1", [top EXCEPT !.res = ret.v])

\* lines 295-296
DoitPowExRet ==
    /\ Back("doit", "pow_ex") /\ ret.kind = "val"
    /\ CallLimit([top EXCEPT !.ex_lim = ret.v, !.pc = "pow_base"], "pow_base",
                 top.e[2], top.z, top.z0, "+")

\* lines 298-318: the table on base_lim and ex_lim
PowTable(base_lim, ex_lim) ==
    IF base_lim = One /\ ex_lim \in {Infinity, NegativeInfinity} THEN <<"one">>
    ELSE IF base_lim = One /\ IsReal(ex_lim) THEN <<"return", One>>
    ELSE IF base_lim \in {Zero, Infinity, NegativeInfinity} /\ ex_lim = Zero
         THEN <<"zero">>
    ELSE IF base_lim = NegativeInfinity /\ ex_lim = NegativeInfinity
         THEN <<"return", Zero>>
    ELSE IF base_lim = NegativeInfinity /\ ex_lim = Infinity
         THEN <<"return", ComplexInfinity>>
    ELSE IF /\ base_lim # AccumBounds /\ ex_lim # AccumBounds
            /\ PowValue(base_lim, ex_lim) # ComplexInfinity
            /\ Tag(PowValue(base_lim, ex_lim)) # "Pow"
         THEN <<"return", PowValue(base_lim, ex_lim)>>
    ELSE <<"fall">>

DoitPowBaseRet ==
    /\ Back("doit", "pow_base") /\ ret.kind = "val"
    /\ LET f == [top EXCEPT !.base_lim = ret.v]
           t == PowTable(ret.v, top.ex_lim)
       IN  IF t[1] = "one"
           THEN CallLimit([f EXCEPT !.pc = "pow_one"], "pow_one",
                          PowOneInfExpr(top.e[2], top.e[3]), top.z, top.z0, "+")
           ELSE IF t[1] = "zero"
           THEN CallLimit([f EXCEPT !.pc = "pow_zero"], "pow_zero",
                          PowLogExpr(top.e[2], top.e[3]), top.z, top.z0, "+")
           ELSE IF t[1] = "return" THEN Return(t[2], "pow_table", f)
           ELSE Goto([f EXCEPT !.pc = "gruntz"])

\* line 301
DoitPowOneRet ==
    /\ Back("doit", "pow_one") /\ ret.kind = "val"
    /\ Return(Exp(ret.v), "pow_one", [top EXCEPT !.res = ret.v])

\* line 307
DoitPowZeroRet ==
    /\ Back("doit", "pow_zero") /\ ret.kind = "val"
    /\ Return(Exp(ret.v), "pow_zero", [top EXCEPT !.res = ret.v])

GruntzOutcome_swallowsMismatch(dir, r, l) ==
    IF dir = "+-"
    THEN IF r \in GruntzErrors \/ l \in GruntzErrors THEN <<"heur">>
         ELSE IF l # r THEN <<"heur">>
         ELSE IF r = NaN \/ l = NaN THEN <<"raise", PoleError>>
         ELSE <<"return", r>>
    ELSE IF r \in GruntzErrors \/ r = NaN THEN <<"heur">>
         ELSE <<"return", r>>

\* lines 322-339: what becomes of the outcomes r and l of gruntz().  With
\* '+-' l is bound when both calls returned, and the handler re-raises
\* whatever it caught when l is bound.
GruntzOutcome(dir, r, l) ==
    IF dir = "+-"
    THEN IF r \in GruntzErrors \/ l \in GruntzErrors THEN <<"heur">>
         ELSE IF l # r THEN <<"raise", NonExistence(l, r)>>
         ELSE IF r = NaN \/ l = NaN THEN <<"raise", PoleError>>
         ELSE <<"return", r>>
    ELSE IF r \in GruntzErrors \/ r = NaN THEN <<"heur">>
         ELSE <<"return", r>>

HeurFrame(e, z, z0, dir) ==
    [fn |-> "heur", pc |-> "start", e |-> e, z |-> z, z0 |-> z0, dir |-> dir,
     r |-> <<>>]

\* lines 320-337: gruntz, once, or for '+-' on both sides.  When the first
\* call raises the second is not made: l stays unbound.
DoitGruntz ==
    /\ At("doit", "gruntz")
    /\ \E r \in GruntzValues \cup GruntzErrors :
       \E l \in (IF top.dir = "+-" /\ r \notin GruntzErrors
                 THEN GruntzValues \cup GruntzErrors ELSE {Unset}) :
         LET o == GruntzOutcome(top.dir, r, l)
             \* a call that raises binds nothing
             f == [top EXCEPT !.r = IF r \in GruntzErrors THEN Unset ELSE r,
                              !.l = IF l \in GruntzErrors THEN Unset ELSE l]
         IN  IF o[1] = "return" THEN Return(o[2], "gruntz", f)
             ELSE IF o[1] = "raise" THEN Raise(o[2], "gruntz", f)
             ELSE Call([f EXCEPT !.pc = "heur"],
                       HeurFrame(top.e, top.z, top.z0, top.dir))

\* lines 337-341
DoitHeurRet ==
    /\ Back("doit", "heur") /\ ret.kind = "val"
    /\ IF ret.v = None THEN Return(Self(top), "heur_none", top)
       ELSE Return(ret.v, "heur", top)

\* line 279: the handler around the product path's limit(f, u, 0, "+")
Catches(f, x) ==
    /\ f.fn = "doit" /\ f.pc = "prod"
    /\ Tag(x) \in {"ValueError", "NotImplementedError", "PoleError"}

\* an exception leaves a frame that does not catch it, unchanged
Unwind ==
    /\ Running /\ ret.kind = "exc"
    /\ IF Catches(top, ret.v)
       THEN Goto([top EXCEPT !.pc = "order"])
       ELSE /\ stack' = Below
            /\ ret' = ret
            /\ ph' = IF Len(stack) = 1 THEN "done" ELSE "run"
            /\ UNCHANGED <<req, ncalls>>

(***************************************************************************)
(* heuristics                                                              *)
(***************************************************************************)
\* e.is_Mul or e.is_Add or e.is_Pow or e.is_Function
HeurKinds ==
    {"Mul", "Add", "Pow", "Fn", "factorial", "gamma", "log", "exp", "sign", "Abs"}

\* line 79, e.subs(z, 1/z)
RECURSIVE SubsInv(_)
SubsInv(x) ==
    IF x = V THEN <<"Pow", V, NegativeOne>>
    ELSE IF Len(x) = 2 THEN <<x[1], SubsInv(x[2])>>
    ELSE IF Len(x) = 3 THEN <<x[1], SubsInv(x[2]), SubsInv(x[3])>>
    ELSE x

\* line 86: l.has(S.Infinity)
RECURSIVE HasInfinity(_)
HasInfinity(x) ==
    IF x = Infinity THEN TRUE
    ELSE IF IsLimit(x) THEN FALSE
    ELSE \E i \in 2..Len(x) : HasInfinity(x[i])

\* line 86: l.is_finite is None
IsFiniteNone(l) ==
    l \notin {Zero, One, NegativeOne, Infinity, NegativeInfinity, ComplexInfinity}

\* lines 88-92, factor_terms(e), together(m), factor(e): the product forms
\* found for a sum
AddAsMul(e) == {<<"Mul", e, K>>}

\* line 104, e.func(*r), when it does not evaluate to NaN
ApplyFunc(e, r) == <<Tag(e)>> \o r

\* lines 106-112: the arguments of e whose limit is no AccumBounds
RECURSIVE E2From(_, _, _)
E2From(e, r, ii) ==
    IF ii > Len(r) THEN <<>>
    ELSE (IF r[ii] # AccumBounds THEN <<Args(e)[ii]>> ELSE <<>>) \o E2From(e, r, ii + 1)

E2(e, r) == E2From(e, r, 1)

\* line 115, Mul(*e2).simplify()
MulSimplified(e2) ==
    IF Len(e2) = 1 THEN {e2[1], K} ELSE {<<"Mul">> \o e2, K}

\* line 121, ratsimp(e), when it raises nothing
RatSimp(e) == {e, NaN, <<"Other", V>>}

\* line 79: the direction for the point 0 that stands for z0
InfDir(z0) == IF z0 = Infinity THEN "+" ELSE "-"

\* lines 78-82
HeurStart ==
    /\ At("heur", "start")
    /\ IF IsInfinitePoint(top.z0)
       THEN CallLimit([top EXCEPT !.pc = "inf"], "h_inf", SubsInv(top.e), top.z,
                      Zero, InfDir(top.z0))
       ELSE IF Tag(top.e) \in HeurKinds THEN Goto([top EXCEPT !.pc = "args"])
       ELSE Return(None, "h_kind", top)

\* lines 80-81 and 127
HeurInfRet ==
    /\ Back("heur", "inf") /\ ret.kind = "val"
    /\ IF IsLimit(ret.v) THEN Return(None, "h_inf_none", top)
       ELSE Return(ret.v, "h_inf", top)

\* lines 84-85
HeurArgs ==
    /\ At("heur", "args")
    /\ Len(top.r) < Len(Args(top.e))
    /\ CallLimit([top EXCEPT !.pc = "arg"], "h_arg", Args(top.e)[Len(top.r) + 1],
                 top.z, top.z0, top.dir)

\* lines 86-102
HeurArgRet ==
    /\ Back("heur", "arg") /\ ret.kind = "val"
    /\ IF HasInfinity(ret.v) /\ IsFiniteNone(ret.v)
       THEN IF Tag(top.e) = "Add"
            THEN \/ Return(None, "h_add_none", top)
                 \/ \E m \in AddAsMul(top.e) :
                      Call([top EXCEPT !.pc = "m"], HeurFrame(m, top.z, top.z0, top.dir))
            ELSE Return(None, "h_inf_arg", top)
       ELSE IF IsLimit(ret.v) THEN Return(None, "h_arg_limit", top)
       ELSE IF ret.v = NaN THEN Return(None, "h_arg_nan", top)
       ELSE Goto([top EXCEPT !.r = Append(top.r, ret.v), !.pc = "args"])

\* line 94
HeurMRet ==
    /\ Back("heur", "m") /\ ret.kind = "val"
    /\ Return(ret.v, "h_m", top)

\* lines 119-126, entered with rv NaN
RatStage(f) ==
    \/ \* PolynomialError, or rat_e is NaN, or rat_e == e
       Return(None, "h_rat_none", f)
    \/ \E rat_e \in RatSimp(f.e) \ {f.e, NaN} :
         CallLimit([f EXCEPT !.pc = "rat"], "h_rat", rat_e, f.z, f.z0, f.dir)

\* lines 103-127
HeurCombine ==
    /\ At("heur", "args")
    /\ Len(top.r) = Len(Args(top.e))
    /\ \E rv \in {NaN, ApplyFunc(top.e, top.r)} :
         IF rv # NaN THEN Return(rv, "h_rv", top)
         ELSE IF /\ Tag(top.e) = "Mul"
                 /\ \E i \in 1..Len(top.r) : top.r[i] = AccumBounds
                 /\ E2(top.e, top.r) # <<>>
         THEN \E e3 \in MulSimplified(E2(top.e, top.r)) :
                CallLimit([top EXCEPT !.pc = "e3"], "h_e3", e3, top.z, top.z0, top.dir)
         ELSE RatStage(top)

\* lines 116-127: rv = l * Mul(*r2)
HeurE3Ret ==
    /\ Back("heur", "e3") /\ ret.kind = "val"
    /\ \E rv \in {NaN, <<"Mul", ret.v, AccumBounds>>} :
         IF rv # NaN THEN Return(rv, "h_e3", top) ELSE RatStage(top)

\* line 126
HeurRatRet ==
    /\ Back("heur", "rat") /\ ret.kind = "val"
    /\ Return(ret.v, "h_rat", top)

(***************************************************************************)
(* remove_abs, the function nested in doit                                 *)
(***************************************************************************)
\* sig.is_zero
IsZero(sig) == sig = Zero

\* sig.is_extended_real
IsExtendedReal(sig) ==
    sig \in {Zero, One, NegativeOne, Infinity, NegativeInfinity, AccumBounds}

\* lines 227-232: what remove_abs returns for the Abs `expr` given sig
AbsResolved(expr, sig) ==
    IF IsExtendedReal(sig) /\ sig \in {NegativeOne, NegativeInfinity}
    THEN <<"Mul", NegativeOne, expr[2]>>
    ELSE IF IsExtendedReal(sig) /\ sig \in {One, Infinity} THEN expr[2]
    ELSE expr

\* the arguments already rebuilt, followed by those without an Abs, which
\* remove_abs returns as they are, up to the next argument that has one
RECURSIVE SkipPlain(_, _)
SkipPlain(expr, newargs) ==
    IF Len(newargs) < Len(Args(expr)) /\ ~HasAbs(Args(expr)[Len(newargs) + 1])
    THEN SkipPlain(expr, Append(newargs, Args(expr)[Len(newargs) + 1]))
    ELSE newargs

\* lines 218-222: the arguments, one remove_abs each; then expr.func(*newargs)
RabsArgs ==
    /\ At("rabs", "args")
    /\ LET na == SkipPlain(top.expr, top.newargs)
       IN  IF Len(na) < Len(Args(top.expr))
           THEN Call([top EXCEPT !.newargs = na, !.pc = "arg"],
                     RabsFrame(Args(top.expr)[Len(na) + 1], top))
           ELSE Goto([top EXCEPT !.newargs = na, !.expr = <<Tag(top.expr)>> \o na,
                                 !.pc = "abs"])

RabsArgRet ==
    /\ Back("rabs", "arg") /\ ret.kind = "val"
    /\ Goto([top EXCEPT !.newargs = Append(top.newargs, ret.v), !.pc = "args"])

\* lines 223-224 and 232
RabsAbs ==
    /\ At("rabs", "abs")
    /\ IF Tag(top.expr) = "Abs"
       THEN CallLimit([top EXCEPT !.pc = "sig"], "abs_sig", top.expr[2],
                      top.z, top.z0, top.dir)
       ELSE Return(top.expr, "rabs", top)

\* lines 225-232
RabsSigRet ==
    /\ Back("rabs", "sig") /\ ret.kind = "val"
    /\ IF IsZero(ret.v)
       THEN CallLimit([top EXCEPT !.pc = "inv"], "abs_inv",
                      <<"Pow", top.expr[2], NegativeOne>>, top.z, top.z0, top.dir)
       ELSE Return(AbsResolved(top.expr, ret.v), "rabs_abs", top)

\* lines 226-232
RabsInvRet ==
    /\ Back("rabs", "inv") /\ ret.kind = "val"
    /\ Return(AbsResolved(top.expr, ret.v), "rabs_abs", top)

Next ==
    \/ Enter
    \/ DoitStart \/ DoitAbsRet \/ DoitMero \/ DoitProduct \/ DoitProductRet
    \/ DoitOrder \/ DoitOrderRet
    \/ DoitPow \/ DoitPowF1Ret \/ DoitPowExRet \/ DoitPowBaseRet
    \/ DoitPowOneRet \/ DoitPowZeroRet
    \/ DoitGruntz \/ DoitHeurRet
    \/ HeurStart \/ HeurInfRet \/ HeurArgs \/ HeurArgRet \/ HeurMRet
    \/ HeurCombine \/ HeurE3Ret \/ HeurRatRet
    \/ RabsArgs \/ RabsArgRet \/ RabsAbs \/ RabsSigRet \/ RabsInvRet
    \/ Unwind

Spec == Init /\ [][Next]_vars

(***************************************************************************)
(* The properties.  `ret` holds what the call that finished last handed to *)
(* its caller: ret.fr is that call's frame as it was left, ret.src the     *)
(* place in the code it was left from.                                     *)
(***************************************************************************)

\* C1: a limit taken at complex infinity is refused with NotImplementedError,
\* whatever the expression and the direction, even when the expression is
\* free of the variable; the call is left from its first statement, with no
\* step of the evaluation made.
C1_ComplexInfinityRefused ==
    /\ \A k \in 1..Len(stack) :
         (stack[k].fn = "doit" /\ stack[k].z0 = ComplexInfinity)
           => k = Len(stack) /\ stack[k].pc = "start" /\ stack[k].e = stack[k].e0
    /\ (ret.kind # "none" /\ ret.fr.fn = "doit" /\ ret.fr.z0 = ComplexInfinity)
         => /\ ret.kind = "exc" /\ ret.v = NotImplementedError
            /\ ret.src = "complex_infinity"
            /\ ret.fr.pc = "start" /\ ret.fr.e = ret.fr.e0
    /\ (ph = "done" /\ req.z0 = ComplexInfinity /\ req.dir \in Directions)
         => ret.kind = "exc" /\ ret.v = NotImplementedError

\* the limit of an expression free of the variable, '+-' at complex infinity,
\* has been refused
C1_Witness ==
    /\ ph = "done" /\ req.z0 = ComplexInfinity /\ req.e = K /\ req.dir = "+-"
    /\ ret.kind = "exc" /\ ret.v = NotImplementedError

\* C2, as stated: for any point and any direction the constructor accepts,
\* the limit of the variable is the point and the limit of an expression
\* free of the variable is the expression.
C2_TrivialLimitAtAnyPoint ==
    (ph = "done" /\ DirError(NewDir(req.z0, req.dir)) = Unset)
      => /\ req.e = V => ret.kind = "val" /\ ret.v = req.z0
         /\ ~Has(req.e) => ret.kind = "val" /\ ret.v = req.e

\* C2, amended: for any point other than complex infinity and any direction
\* the constructor accepts, the limit of the variable is the point and the
\* limit of an expression free of the variable is the expression, and the
\* call is decided at its start, before any other step.
C2_TrivialLimitAwayFromComplexInfinity ==
    /\ \A k \in 1..Len(stack) :
         (/\ stack[k].fn = "doit" /\ stack[k].z0 # ComplexInfinity
          /\ (stack[k].e0 = V \/ ~Has(stack[k].e0)))
           => stack[k].pc = "start"
    /\ (ret.kind # "none" /\ ret.fr.fn = "doit" /\ ret.fr.z0 # ComplexInfinity)
         => /\ ret.fr.e0 = V
                 => ret.kind = "val" /\ ret.v = ret.fr.z0 /\ ret.src = "trivial"
            /\ ~Has(ret.fr.e0)
                 => ret.kind = "val" /\ ret.v = ret.fr.e0 /\ ret.src = "trivial"
    /\ (/\ ph = "done" /\ req.z0 # ComplexInfinity
        /\ DirError(NewDir(req.z0, req.dir)) = Unset)
         => /\ req.e = V => ret.kind = "val" /\ ret.v = req.z0
            /\ ~Has(req.e) => ret.kind = "val" /\ ret.v = req.e

\* the limit of k at -oo, asked for from both sides, has been returned as k
C2_Witness ==
    /\ ph = "done" /\ req.e = K /\ req.z0 = NegativeInfinity /\ req.dir = "+-"
    /\ ret.kind = "val" /\ ret.v = K /\ ret.src = "trivial"

\* C3, as stated: a direction that is none of '+', '-', '+-' makes the
\* construction fail, and nothing is evaluated.
C3_InvalidDirectionAtAnyPoint ==
    (ph # "call" /\ req.dir \notin Directions)
      => /\ ph = "done" /\ stack = <<>> /\ ncalls = 0
         /\ ret.kind = "exc" /\ ret.src = "new"
         /\ ret.v = IF req.dir = "#object" THEN TypeError ELSE ValueError

\* C3, amended: at every point other than +oo and -oo, a direction that is
\* none of '+', '-', '+-' makes the construction fail (TypeError for what is
\* neither a string nor a Symbol, else ValueError), and nothing is evaluated.
C3_InvalidDirectionAtOtherPoints ==
    (ph # "call" /\ req.dir \notin Directions /\ req.z0 \notin {Infinity, NegativeInfinity})
      => /\ ph = "done" /\ stack = <<>> /\ ncalls = 0
         /\ ret.kind = "exc" /\ ret.src = "new"
         /\ ret.v = IF req.dir = "#object" THEN TypeError ELSE ValueError

\* the construction with an unknown string at the point 0 has failed
C3_Witness ==
    /\ ph = "done" /\ req.dir = "bogus" /\ req.z0 = Zero
    /\ ret.kind = "exc" /\ ret.v = ValueError /\ ret.src = "new" /\ stack = <<>>

\* C4: every node built holds the direction '-' when its point is +oo and
\* '+' when its point is -oo, whatever direction was supplied; at any other
\* point it holds the supplied direction.
C4_InfinityForcesDirection ==
    /\ \A k \in 1..Len(stack) :
         stack[k].fn = "doit"
           => /\ stack[k].z0 = Infinity => stack[k].dir = "-"
              /\ stack[k].z0 = NegativeInfinity => stack[k].dir = "+"
              /\ stack[k].z0 \notin {Infinity, NegativeInfinity}
                   => stack[k].dir = stack[k].dirArg
    /\ (ret.kind = "val" /\ IsLimit(ret.v))
         => /\ ret.v[5] = Infinity => ret.v[6] = "-"
            /\ ret.v[5] = NegativeInfinity => ret.v[6] = "+"

\* a node at -oo for which '-' was supplied holds '+', and is being evaluated
C4_Witness ==
    /\ stack # <<>> /\ stack[1].fn = "doit"
    /\ stack[1].z0 = NegativeInfinity /\ stack[1].dirArg = "-" /\ stack[1].dir = "+"

\* C5: when leadterm() gives (coeff, ex) on the meromorphic path the call
\* returns 0 for ex > 0, coeff for ex = 0, +oo*sign(coeff) for negative ex
\* that is even or with direction '+', -oo*sign(coeff) for negative odd ex
\* with '-', and complex infinity for negative odd ex with '+-'; when
\* leadterm() fails the call goes on to the later steps.
C5_MeromorphicTable ==
    /\ ret.src = "mero"
         => /\ ret.kind = "val"
            /\ ret.fr.ex > 0 => ret.v = Zero
            /\ ret.fr.ex = 0 => ret.v = ret.fr.coeff
            /\ (ret.fr.ex < 0 /\ (ret.fr.ex % 2 = 0 \/ ret.fr.dir = "+"))
                 => ret.v = InfTimes(Infinity, Sign(ret.fr.coeff))
            /\ (ret.fr.ex < 0 /\ ret.fr.ex % 2 = 1 /\ ret.fr.dir = "-")
                 => ret.v = InfTimes(NegativeInfinity, Sign(ret.fr.coeff))
            /\ (ret.fr.ex < 0 /\ ret.fr.ex % 2 = 1 /\ ret.fr.dir = "+-")
                 => ret.v = ComplexInfinity
    /\ \A k \in 1..Len(stack) :
         (stack[k].fn = "doit" /\ stack[k].ltfail)
           => stack[k].pc \notin {"start", "abs", "mero"}
    /\ (ret.kind # "none" /\ ret.fr.fn = "doit" /\ ret.fr.ltfail)
         => ret.src \notin {"mero", "trivial", "complex_infinity"}

\* a pole of even order approached from the left has given -oo for a
\* negative coefficient
C5_Witness ==
    /\ ret.src = "mero" /\ ret.fr.ex = 0 - 2 /\ ret.fr.dir = "-"
    /\ ret.fr.coeff = NegativeOne /\ ret.v = NegativeInfinity

\* C6: with direction '+-', when both calls of gruntz() return and the two
\* values differ, the call raises the ValueError naming the left-hand and the
\* right-hand value; heuristics() is not tried, and the exception reaches the
\* outermost caller as it was raised.
C6_TwoSidedMismatchRaises ==
    /\ (/\ ret.kind # "none" /\ ret.fr.fn = "doit" /\ ret.src = "gruntz"
        /\ ret.fr.dir = "+-" /\ ret.fr.l # Unset /\ ret.fr.r # Unset
        /\ ret.fr.l # ret.fr.r)
         => ret.kind = "exc" /\ ret.v = NonExistence(ret.fr.l, ret.fr.r)
    /\ \A k \in 1..Len(stack) :
         (stack[k].fn = "doit" /\ stack[k].pc = "heur")
           => stack[k].l = Unset
    /\ (ret.kind = "exc" /\ Len(ret.v) = 4)
         => /\ ret.fr.fn = "doit" /\ ret.fr.dir = "+-"
            /\ ret.v = NonExistence(ret.fr.l, ret.fr.r)
            /\ ret.fr.l # ret.fr.r
            /\ stack # <<>> => ~Catches(top, ret.v)

\* the two sides gave 1 and 0 and the outermost caller holds the ValueError
\* naming them
C6_Witness ==
    /\ ph = "done" /\ req.dir = "+-" /\ ret.kind = "exc"
    /\ ret.v = NonExistence(One, Zero)
    /\ ret.fr.l = One /\ ret.fr.r = Zero

\* C7, as stated, for equal values on the two sides (C6 covers the unequal
\* ones): a NaN from gruntz() is a pole signal like a PoleError, and a pole
\* signal never reaches the caller: heuristics() is tried, and the call
\* returns what it found, or its own node when it found nothing.
C7_PoleSignalRecovered ==
    (/\ ret.kind # "none" /\ ret.fr.fn = "doit"
     /\ ret.fr.pc \in {"gruntz", "heur"}
     /\ (ret.fr.r = NaN \/ ret.fr.l = NaN)
     /\ (ret.fr.dir = "+-" => ret.fr.l = Unset \/ ret.fr.l = ret.fr.r))
      => /\ ret.kind = "val"
         /\ ret.src \in {"heur", "heur_none"}
         /\ ret.src = "heur_none" => ret.v = Self(ret.fr)

\* C8, as stated: a call of limit() returns an evaluated value or the very
\* node it was called on; heuristics() returns an evaluated value or None.
\* Neither hands on a different unevaluated node, bare or inside a value.
C8_EvaluatedOrSelf ==
    /\ (ret.kind = "val" /\ ret.fr.fn = "doit")
         => ret.v = Self(ret.fr) \/ ~ContainsLimit(ret.v)
    /\ (ret.kind = "val" /\ ret.fr.fn = "heur")
         => ~ContainsLimit(ret.v)

C10_SubLimitsKeepDirection ==
    \A k \in 2..Len(stack) :
      (/\ stack[k].fn = "doit"
       /\ stack[k].site \in {"abs_sig", "abs_inv", "order", "pow_f1", "pow_ex",
                              "pow_base", "pow_one", "pow_zero"}
       /\ stack[k].z = stack[k - 1].z /\ stack[k].z0 = stack[k - 1].z0)
        => stack[k].dir = stack[k - 1].dir

====
